---- MODULE Spec2Model ----
(***************************************************************************)
(* Survey application: the persistence schema (surveys, questions,         *)
(* responses, answers), the submission handler POST /api/responses and the *)
(* statistics handler GET /api/responses/survey/:surveyId/stats.           *)
(*                                                                         *)
(* req is the most recent request a handler took up and res the most       *)
(* recent reply sent.                                                      *)
(*                                                                         *)
(* Strings whose characters matter (answer_text, option values, keys of    *)
(* the tally objects) are sequences of one-character strings.  JSON and    *)
(* JavaScript values are tagged records [t |-> tag, v |-> payload].        *)
(* JavaScript numbers are exact decimals with FracDigits fractional        *)
(* digits: [k |-> "fin", n |-> value * Scale], [k |-> "inf", n |-> sign],  *)
(* [k |-> "nan", n |-> 0].  Binary rounding of IEEE doubles is not         *)
(* modelled; the sample texts have at most FracDigits fractional digits    *)
(* and no exponent part.                                                   *)
(***************************************************************************)
EXTENDS Integers, Sequences, FiniteSets, TLC

VARIABLES users, surveys, questions, responses, answers, req, res, subm, stat,
          reg, store

\* The five tables.
tables == <<users, surveys, questions, responses, answers>>

\* The handlers that are between two of their database calls: a submission
\* (subm) and a statistics request (stat), with their local variables.
inflight == <<subm, stat, reg>>

vars == <<users, surveys, questions, responses, answers, req, res, subm, stat,
          reg, store>>

(***************************************************************************)
(* Bounds of the model.                                                    *)
(***************************************************************************)
MaxAnswers == 3
MaxResponses == 2
FracDigits == 2

(***************************************************************************)
(* Generic helpers.                                                        *)
(***************************************************************************)
Range(s) == {s[i] : i \in 1..Len(s)}


RECURSIVE Pow10(_)
Pow10(e) == IF e = 0 THEN 1 ELSE 10 * Pow10(e - 1)

Scale == Pow10(FracDigits)

Abs(n) == IF n < 0 THEN -n ELSE n

(***************************************************************************)
(* JSON / JavaScript values.                                               *)
(***************************************************************************)
JUndef == [t |-> "undefined"]
JNull == [t |-> "null"]
JStr(s) == [t |-> "str", v |-> s]
JNum(x) == [t |-> "num", v |-> x]
JObj == [t |-> "obj"]
JArr(xs) == [t |-> "arr", v |-> xs]

Fin(n) == [k |-> "fin", n |-> n]
Inf(sign) == [k |-> "inf", n |-> sign]
NaN == [k |-> "nan", n |-> 0]

\* ToBoolean: the test of `if (x)` and of `x || y`.
Truthy(j) ==
  CASE j.t = "undefined" -> FALSE
    [] j.t = "null" -> FALSE
    [] j.t = "str" -> j.v # <<>>
    [] j.t = "num" -> ~(j.v.k = "nan" \/ (j.v.k = "fin" /\ j.v.n = 0))
    [] OTHER -> TRUE

\* supabase-js serialises the row with JSON.stringify: an undefined property
\* is dropped and the column takes its default, NULL.
ToColumn(j) == IF j.t = "undefined" THEN JNull ELSE j

(***************************************************************************)
(* parseFloat and Number.prototype.toString over character sequences.      *)
(***************************************************************************)
DigitChars == <<"0", "1", "2", "3", "4", "5", "6", "7", "8", "9">>
WhiteSpace == {" "}
InfinityLit == <<"I", "n", "f", "i", "n", "i", "t", "y">>
NaNLit == <<"N", "a", "N">>

IsDigit(c) == \E d \in 1..10 : DigitChars[d] = c
DigitVal(c) == (CHOOSE d \in 1..10 : DigitChars[d] = c) - 1

HasPrefix(s, p) == Len(s) >= Len(p) /\ SubSeq(s, 1, Len(p)) = p

RECURSIVE TrimStart(_)
TrimStart(s) ==
  IF s # <<>> /\ Head(s) \in WhiteSpace THEN TrimStart(Tail(s)) ELSE s

RECURSIVE DigitPrefixLen(_)
DigitPrefixLen(s) ==
  IF s # <<>> /\ IsDigit(Head(s)) THEN 1 + DigitPrefixLen(Tail(s)) ELSE 0

RECURSIVE DigitsValue(_)
DigitsValue(ds) ==
  IF ds = <<>> THEN 0
  ELSE 10 * DigitsValue(SubSeq(ds, 1, Len(ds) - 1)) + DigitVal(ds[Len(ds)])

\* The fraction digits as a multiple of 1/Scale (digits beyond FracDigits dropped).
FracValue(ds) ==
  LET kept == SubSeq(ds, 1, IF Len(ds) < FracDigits THEN Len(ds) ELSE FracDigits)
  IN DigitsValue(kept) * Pow10(FracDigits - Len(kept))

\* parseFloat(s): skip leading white space, then take the longest prefix that
\* is a StrDecimalLiteral (sign, "Infinity" or digits with an optional
\* fraction); whatever follows the prefix is ignored; no such prefix gives NaN.
ParseFloat(s) ==
  LET t == TrimStart(s)
      signed == t # <<>> /\ Head(t) \in {"+", "-"}
      sgn == IF t # <<>> /\ Head(t) = "-" THEN -1 ELSE 1
      u == IF signed THEN Tail(t) ELSE t
      ni == DigitPrefixLen(u)
      rest == SubSeq(u, ni + 1, Len(u))
      hasDot == rest # <<>> /\ Head(rest) = "."
      nf == IF hasDot THEN DigitPrefixLen(Tail(rest)) ELSE 0
      fracDigits == IF hasDot THEN SubSeq(Tail(rest), 1, nf) ELSE <<>>
  IN IF HasPrefix(u, InfinityLit) THEN Inf(sgn)
     ELSE IF ni + nf = 0 THEN NaN
     ELSE Fin(sgn * (DigitsValue(SubSeq(u, 1, ni)) * Scale + FracValue(fracDigits)))

IsNaN(x) == x.k = "nan"

RECURSIVE NatToString(_)
NatToString(n) ==
  IF n < 10 THEN <<DigitChars[n + 1]>>
  ELSE NatToString(n \div 10) \o <<DigitChars[(n % 10) + 1]>>

RECURSIVE FracToString(_, _)
\* f is the fraction in units of 10^-width; trailing zeros are not printed.
FracToString(f, width) ==
  IF f = 0 THEN <<>>
  ELSE <<DigitChars[(f \div Pow10(width - 1)) + 1]>>
         \o FracToString(f % Pow10(width - 1), width - 1)

\* Number.prototype.toString(): the shortest decimal form, "4" for 4.0.
NumberToString(x) ==
  CASE x.k = "nan" -> NaNLit
    [] x.k = "inf" -> (IF x.n < 0 THEN <<"-">> ELSE <<>>) \o InfinityLit
    [] OTHER ->
         LET a == Abs(x.n)
             f == a % Scale
         IN (IF x.n < 0 THEN <<"-">> ELSE <<>>)
              \o NatToString(a \div Scale)
              \o (IF f = 0 THEN <<>> ELSE <<".">> \o FracToString(f, FracDigits))

\* a + b on numbers.
NumAdd(a, b) ==
  CASE a.k = "nan" \/ b.k = "nan" -> NaN
    [] a.k = "inf" /\ b.k = "inf" -> IF a.n = b.n THEN a ELSE NaN
    [] a.k = "inf" -> a
    [] b.k = "inf" -> b
    [] OTHER -> Fin(a.n + b.n)

\* a / len for a count len > 0: the exact quotient num / den.
NumDiv(a, len) ==
  IF a.k = "fin" THEN [k |-> "fin", num |-> a.n, den |-> len * Scale] ELSE a

\* JSON.stringify (res.json) writes NaN and the infinities as null.
JsonNumber(x) == IF x.k = "fin" THEN JNum(x) ELSE JNull


(***************************************************************************)
(* The persistence schema.  surveys and questions are sets of rows; the    *)
(* responses and answers tables are sequences in insertion order.          *)
(***************************************************************************)
OptA == JStr(<<"a">>)
OptB == JStr(<<"b">>)
OptZ == JStr(<<"z">>)

UserIds == {"u1", "u2"}

\* Rows created through POST /api/auth/register.
SeedUsers ==
  { [id |-> "u1", email |-> "e1"], [id |-> "u2", email |-> "e2"] }

\* Rows created through POST /api/surveys and POST /api/surveys/:id/questions
\* by users u1 and u2; s1 has been published, s2 is still a draft.
SeedSurveys ==
  { [id |-> "s1", title |-> "T1", creator_id |-> "u1", status |-> "published"],
    [id |-> "s2", title |-> "T2", creator_id |-> "u2", status |-> "draft"] }

SeedQuestions ==
  { [id |-> "q1", survey_id |-> "s1", question_text |-> "Q1",
     question_type |-> "single_choice", options |-> JArr(<<OptA, OptB>>),
     is_required |-> FALSE, order_index |-> 0],
    [id |-> "q2", survey_id |-> "s1", question_text |-> "Q2",
     question_type |-> "rating", options |-> JNull,
     is_required |-> FALSE, order_index |-> 1],
    [id |-> "q3", survey_id |-> "s1", question_text |-> "Q3",
     question_type |-> "text", options |-> JNull,
     is_required |-> FALSE, order_index |-> 2],
    [id |-> "q4", survey_id |-> "s1", question_text |-> "Q4",
     question_type |-> "multiple_choice", options |-> JArr(<<OptA, OptB>>),
     is_required |-> FALSE, order_index |-> 3],
    [id |-> "q5", survey_id |-> "s2", question_text |-> "Q5",
     question_type |-> "rating", options |-> JNull,
     is_required |-> TRUE, order_index |-> 0] }

\* A survey id that names no row.
NoSurveyId == "s9"
RequestSurveyIds == {sv.id : sv \in SeedSurveys} \cup {NoSurveyId}

NoRequest == [route |-> "none"]
NoResponse == [route |-> "none"]
Idle == [pc |-> "idle"]

\* The clients that register, each with at most one request in progress.
Clients == {"c1", "c2"}
NoRegistrations == [c \in Clients |-> Idle]

\* The client's auth store as it is created.
InitialStore ==
  [user |-> JNull, token |-> JNull, isAuthenticated |-> FALSE, isLoading |-> FALSE]

Init ==
  /\ users = SeedUsers
  /\ surveys = SeedSurveys
  /\ questions = SeedQuestions
  /\ responses = <<>>
  /\ answers = <<>>
  /\ req = NoRequest
  /\ res = NoResponse
  /\ subm = Idle
  /\ stat = Idle
  /\ reg = NoRegistrations
  /\ store = InitialStore

\* gen_random_uuid(): an id no row of the table holds.
FreshId(rows) == CHOOSE i \in 1..(Len(rows) + 1) : \A r \in Range(rows) : r.id # i

\* .from('surveys').select(...).eq('id', id).single(): the row, or none.
SurveyRows(id) == {sv \in surveys : sv.id = id}

\* The query without .eq('survey_id', id): the questions of every survey.
QuestionsOfAnySurvey(id) == questions

\* .from('questions').select(...).eq('survey_id', id)
QuestionsOf(id) == {q \in questions : q.survey_id = id}

RECURSIVE OrderByIndex(_)
\* .order('order_index'): ascending; rows with equal keys in some order.
OrderByIndex(qs) ==
  IF qs = {} THEN <<>>
  ELSE LET first == CHOOSE q \in qs : \A o \in qs : q.order_index <= o.order_index
       IN <<first>> \o OrderByIndex(qs \ {first})

\* The embedded resource answers(answer_text, answer_options) of a question row.
AnswersOf(qid) ==
  LET Of(a) == a.question_id = qid
      rows == SelectSeq(answers, Of)
  IN [i \in 1..Len(rows) |->
        [answer_text |-> rows[i].answer_text, answer_options |-> rows[i].answer_options]]

\* .from('responses').select('*', {count: 'exact', head: true}).eq('survey_id', id)
ResponseCount(id) == Cardinality({i \in 1..Len(responses) : responses[i].survey_id = id})


(***************************************************************************)
(* GET /api/responses/survey/:surveyId/stats                               *)
(***************************************************************************)
EmptyObject == [key \in {} |-> 0]

\* obj[key] = (obj[key] || 0) + 1
Incremented(obj, key) ==
  [k \in DOMAIN obj \cup {key} |->
     (IF k \in DOMAIN obj THEN obj[k] ELSE 0) + (IF k = key THEN 1 ELSE 0)]

\* The property key a value is converted to when it indexes an object.
PropertyKey(e) ==
  CASE e.t = "str" -> e.v
    [] e.t = "num" -> NumberToString(e.v)
    [] OTHER -> <<"n", "u", "l", "l">>

\* optionCounts[option] = 1: the count the option already holds is lost.
OptionIncrementOverwrite(counts, option) ==
  [k \in DOMAIN counts \cup {PropertyKey(option)} |->
     IF k = PropertyKey(option) THEN 1 ELSE counts[k]]

\* Only a value some question defines is tallied; any other is skipped.
OptionIncrementDefinedOnly(counts, option) ==
  IF \E q \in questions : q.options.t = "arr" /\ option \in Range(q.options.v)
  THEN Incremented(counts, PropertyKey(option))
  ELSE counts

\* optionCounts[option] = (optionCounts[option] || 0) + 1
OptionIncrement(counts, option) == Incremented(counts, PropertyKey(option))

RECURSIVE CountOptions(_, _)
\* answer.answer_options.forEach(option => ...)
CountOptions(options, counts) ==
  IF options = <<>> THEN counts
  ELSE CountOptions(Tail(options), OptionIncrement(counts, Head(options)))

\* `if (answer.answer_options)` passes and the value has no forEach method:
\* calling it raises a TypeError.
ForEachThrows(answer) ==
  Truthy(answer.answer_options) /\ answer.answer_options.t # "arr"

RECURSIVE OptionCounts(_, _)
\* question.answers.forEach(answer => { if (answer.answer_options) ... })
OptionCounts(as, counts) ==
  IF as = <<>> THEN counts
  ELSE OptionCounts(Tail(as),
         IF Truthy(Head(as).answer_options) /\ Head(as).answer_options.t = "arr"
         THEN CountOptions(Head(as).answer_options.v, counts)
         ELSE counts)

\* parseFloat(answer.answer_text || '0')
RatingOf(answer) ==
  ParseFloat(IF Truthy(answer.answer_text) THEN answer.answer_text.v ELSE <<"0">>)

\* question.answers.map(...).filter(rating => !isNaN(rating))
Ratings(as) ==
  LET parsed == [i \in 1..Len(as) |-> RatingOf(as[i])]
      Kept(x) == ~IsNaN(x)
  IN SelectSeq(parsed, Kept)

RECURSIVE RatingSum(_)
\* ratings.reduce((sum, rating) => sum + rating, 0)
RatingSum(ratings) ==
  IF ratings = <<>> THEN Fin(0)
  ELSE NumAdd(RatingSum(SubSeq(ratings, 1, Len(ratings) - 1)), ratings[Len(ratings)])

\* dist[key] = 1: the count a bucket already holds is lost.
RatingIncrementOverwrite(dist, rating) ==
  [k \in DOMAIN dist \cup {NumberToString(rating)} |->
     IF k = NumberToString(rating) THEN 1 ELSE dist[k]]

\* dist[rating.toString()] = (dist[rating.toString()] || 0) + 1
RatingIncrement(dist, rating) == Incremented(dist, NumberToString(rating))

RECURSIVE RatingDistribution(_, _)
RatingDistribution(ratings, dist) ==
  IF ratings = <<>> THEN dist
  ELSE RatingDistribution(Tail(ratings), RatingIncrement(dist, Head(ratings)))

IsChoice(type) == type \in {"single_choice", "multiple_choice"}

\* The fields without the `ratings.length > 0` guard: 0 / 0 is NaN.
RatingFieldsUnguarded(as) ==
  LET ratings == Ratings(as)
  IN [average_rating |->
        IF Len(ratings) > 0
        THEN JsonNumber(NumDiv(RatingSum(ratings), Len(ratings)))
        ELSE JsonNumber(NaN),
      rating_distribution |-> RatingDistribution(ratings, EmptyObject)]

\* The fields added for a rating question.
RatingFields(as) ==
  LET ratings == Ratings(as)
  IN IF Len(ratings) > 0
     THEN [average_rating |-> JsonNumber(NumDiv(RatingSum(ratings), Len(ratings))),
           rating_distribution |-> RatingDistribution(ratings, EmptyObject)]
     ELSE EmptyObject

\* One element of questions.map(question => { ... return stats }).
QuestionStat(q) ==
  LET as == AnswersOf(q.id)
      base == [id |-> q.id, question_text |-> q.question_text,
               question_type |-> q.question_type, total_answers |-> Len(as)]
  IN IF IsChoice(q.question_type)
     THEN base @@ [option_stats |-> OptionCounts(as, EmptyObject)]
     ELSE IF q.question_type = "rating" THEN base @@ RatingFields(as)
     ELSE base

\* The map callback throws for some question of the survey.
StatsThrow(qs) ==
  \E i \in 1..Len(qs) :
     /\ IsChoice(qs[i].question_type)
     /\ \E a \in Range(AnswersOf(qs[i].id)) : ForEachThrows(a)

NoToken == [kind |-> "none"]
BadToken == [kind |-> "invalid"]
TokenOf(u) == [kind |-> "valid", id |-> u]
Tokens == {NoToken, BadToken} \cup {TokenOf(u) : u \in UserIds}

(***************************************************************************)
(* authenticateToken.  An Authorization header is absent or a list of the  *)
(* parts that split(' ') yields; a part is a word or a JWT.  A JWT holds   *)
(* its payload, the key it was signed with and whether it has expired.     *)
(***************************************************************************)
JwtSecret == "secret"

NoHeader == [t |-> "undefined"]
Header(parts) == [t |-> "str", parts |-> parts]
Word(w) == [t |-> "word", v |-> w]
Jwt(userId, key, expired) ==
  [t |-> "jwt", payload |-> [id |-> userId], key |-> key, expired |-> expired]

\* authHeader && authHeader.split(' ')[1]: the second part, when there is a
\* header, it has a second part and that part is not the empty string.
HeaderToken(header) ==
  IF header.t = "undefined" THEN JUndef
  ELSE IF Len(header.parts) < 2 THEN JUndef
  ELSE IF header.parts[2] = Word("") THEN JUndef
  ELSE header.parts[2]

\* verifyToken without the expiry: a token signed with the key verifies.
VerifyTokenForever(token) ==
  IF token.t = "jwt" /\ token.key = JwtSecret
  THEN [t |-> "payload", v |-> token.payload]
  ELSE JNull

\* verifyToken: jwt.verify(token, JWT_SECRET), or null when it throws.
VerifyToken(token) ==
  IF token.t = "jwt" /\ token.key = JwtSecret /\ ~token.expired
  THEN [t |-> "payload", v |-> token.payload]
  ELSE JNull

\* The request as the middleware leaves it: answered 401 or 403 by the
\* middleware itself, or passed on with the decoded payload as its user.
AuthenticateToken(header) ==
  LET token == HeaderToken(header)
      decoded == VerifyToken(token)
  IN IF token.t = "undefined" THEN [kind |-> "none", header |-> header]
     ELSE IF decoded.t = "null" THEN [kind |-> "invalid", header |-> header]
     ELSE [kind |-> "valid", id |-> decoded.v.id, header |-> header]

StatsFailures == {"none", "survey", "count", "questions"}

Reply(route, status, error) == [route |-> route, status |-> status, error |-> error]

\* The handler without `survey.creator_id !== user.id`: any user who is logged
\* in is served.
StatsResponseAnyUser(token, surveyId, fail) ==
  LET found == SurveyRows(surveyId)
      survey == CHOOSE sv \in found : TRUE
      qs == OrderByIndex(QuestionsOf(surveyId))
  IN IF token.kind = "none" THEN Reply("stats", 401, "token_missing")
     ELSE IF token.kind = "invalid" THEN Reply("stats", 403, "token_invalid")
     ELSE IF fail = "survey" \/ found = {} THEN Reply("stats", 404, "survey_not_found")
     ELSE IF fail \in {"count", "questions"} THEN Reply("stats", 500, "stats_failed")
     ELSE IF StatsThrow(qs) THEN Reply("stats", 500, "internal_error")
     ELSE [route |-> "stats", status |-> 200,
           body |-> [survey |-> [id |-> survey.id, title |-> survey.title],
                     total_responses |-> ResponseCount(surveyId),
                     question_stats |-> [i \in 1..Len(qs) |-> QuestionStat(qs[i])]]]

\* The response of authenticateToken followed by the handler; fail names the
\* database call that returns an error, if any.
StatsResponse(token, surveyId, fail) ==
  LET found == SurveyRows(surveyId)
      survey == CHOOSE sv \in found : TRUE
      qs == OrderByIndex(QuestionsOf(surveyId))
  IN IF token.kind = "none" THEN Reply("stats", 401, "token_missing")
     ELSE IF token.kind = "invalid" THEN Reply("stats", 403, "token_invalid")
     ELSE IF fail = "survey" \/ found = {} THEN Reply("stats", 404, "survey_not_found")
     ELSE IF survey.creator_id # token.id THEN Reply("stats", 403, "not_owner")
     ELSE IF fail \in {"count", "questions"} THEN Reply("stats", 500, "stats_failed")
     ELSE IF StatsThrow(qs) THEN Reply("stats", 500, "internal_error")
     ELSE [route |-> "stats", status |-> 200,
           body |-> [survey |-> [id |-> survey.id, title |-> survey.title],
                     total_responses |-> ResponseCount(surveyId),
                     question_stats |-> [i \in 1..Len(qs) |-> QuestionStat(qs[i])]]]

StatsRequestOf(token, surveyId, fail) ==
  [route |-> "stats", token |-> token, survey_id |-> surveyId, fail |-> fail]

\* A handler that also clears the answers it has just summarised.
GetStatsAndClear(token, surveyId, fail) ==
  /\ req' = StatsRequestOf(token, surveyId, fail)
  /\ res' = StatsResponse(token, surveyId, fail)
  /\ answers' = IF res'.status = 200 THEN <<>> ELSE answers
  /\ UNCHANGED <<users, surveys, questions, responses, inflight, store>>

GetStats(token, surveyId, fail) ==
  /\ req' = StatsRequestOf(token, surveyId, fail)
  /\ res' = StatsResponse(token, surveyId, fail)
  /\ UNCHANGED <<tables, inflight, store>>


(***************************************************************************)
(* POST /api/responses                                                     *)
(***************************************************************************)
\* answerSchema: answer_text an optional string, answer_options an optional
\* array of strings (question_id is always a uuid here).
AnswerSchemaOk(a) ==
  /\ a.answer_text.t \in {"undefined", "str"}
  /\ \/ a.answer_options.t = "undefined"
     \/ /\ a.answer_options.t = "arr"
        /\ \A e \in Range(a.answer_options.v) : e.t = "str"

\* responseSchema: at least one answer, each matching answerSchema.
ResponseSchemaOk(body) ==
  /\ Len(body.answers) >= 1
  /\ \A a \in Range(body.answers) : AnswerSchemaOk(a)

AnsweredQuestionIds(body) == {a.question_id : a \in Range(body.answers)}

\* The check of the required questions left out.
RequiredMissingUnchecked(body) == FALSE

\* Some required question of the survey has no entry among the answers.
RequiredMissing(body) ==
  \E q \in QuestionsOf(body.survey_id) :
     q.is_required /\ q.id \notin AnsweredQuestionIds(body)

\* The check of the question ids left out: every id passes.
InvalidQuestionIdUnchecked(body) == FALSE

\* Some answer names a question that is not one of the survey's.
InvalidQuestionId(body) ==
  \E a \in Range(body.answers) :
     a.question_id \notin {q.id : q \in QuestionsOf(body.survey_id)}

RECURSIVE AnswersToInsert(_, _, _)
\* answers.map(answer => ({response_id, question_id, answer_text, answer_options})),
\* each row taking a fresh id.
AnswersToInsert(as, responseId, table) ==
  IF as = <<>> THEN table
  ELSE AnswersToInsert(Tail(as), responseId,
         Append(table, [id |-> FreshId(table),
                        response_id |-> responseId,
                        question_id |-> Head(as).question_id,
                        answer_text |-> ToColumn(Head(as).answer_text),
                        answer_options |-> ToColumn(Head(as).answer_options)]))

SubmitFailures == {"none", "survey", "questions", "response", "answers"}

\* The checks without `survey.status !== 'published'`.
SubmitRejectionAnyStatus(body, fail) ==
  LET found == SurveyRows(body.survey_id)
  IN IF ~ResponseSchemaOk(body) THEN Reply("submit", 400, "invalid_body")
     ELSE IF fail = "survey" \/ found = {} THEN Reply("submit", 404, "survey_not_found")
     ELSE IF fail = "questions" THEN Reply("submit", 500, "questions_failed")
     ELSE IF RequiredMissing(body) THEN Reply("submit", 400, "required_missing")
     ELSE IF InvalidQuestionId(body) THEN Reply("submit", 400, "invalid_question")
     ELSE IF fail = "response" THEN Reply("submit", 500, "submit_failed")
     ELSE IF fail = "answers" THEN Reply("submit", 500, "answers_failed")
     ELSE NoResponse

\* The status and error of the reply when the submission is not stored.
SubmitRejection(body, fail) ==
  LET found == SurveyRows(body.survey_id)
      survey == CHOOSE sv \in found : TRUE
  IN IF ~ResponseSchemaOk(body) THEN Reply("submit", 400, "invalid_body")
     ELSE IF fail = "survey" \/ found = {} THEN Reply("submit", 404, "survey_not_found")
     ELSE IF survey.status # "published" THEN Reply("submit", 400, "not_published")
     ELSE IF fail = "questions" THEN Reply("submit", 500, "questions_failed")
     ELSE IF RequiredMissing(body) THEN Reply("submit", 400, "required_missing")
     ELSE IF InvalidQuestionId(body) THEN Reply("submit", 400, "invalid_question")
     ELSE IF fail = "response" THEN Reply("submit", 500, "submit_failed")
     ELSE IF fail = "answers" THEN Reply("submit", 500, "answers_failed")
     ELSE NoResponse

SubmitRequestOf(body, fail) == [route |-> "submit", body |-> body, fail |-> fail]

\* The whole handler.  When the answers insert fails the response row that was
\* just created is deleted again, so the tables end as they began.
PostResponse(body, fail) ==
  LET rejection == SubmitRejection(body, fail)
      responseId == FreshId(responses)
  IN IF rejection # NoResponse
     THEN /\ req' = SubmitRequestOf(body, fail)
          /\ res' = rejection
          /\ UNCHANGED <<tables, inflight, store>>
     ELSE /\ Len(answers) + Len(body.answers) <= MaxAnswers
          /\ responses' = Append(responses, [id |-> responseId, survey_id |-> body.survey_id])
          /\ answers' = AnswersToInsert(body.answers, responseId, answers)
          /\ req' = SubmitRequestOf(body, fail)
          /\ res' = [route |-> "submit", status |-> 201, response_id |-> responseId]
          /\ UNCHANGED <<users, surveys, questions, inflight, store>>

(***************************************************************************)
(* A row written to the answers table through the database's REST          *)
(* interface with the anon key: the anon role holds INSERT on answers and  *)
(* the insert policy checks nothing.  The foreign keys and column types    *)
(* still hold: answer_text is TEXT, answer_options is any JSONB value.     *)
(***************************************************************************)
AnonInsertAnswer(responseId, questionId, text, options) ==
  /\ Len(answers) < MaxAnswers
  /\ \E r \in Range(responses) : r.id = responseId
  /\ \E q \in questions : q.id = questionId
  /\ text.t \in {"null", "str"}
  /\ options.t # "undefined"
  /\ answers' = Append(answers, [id |-> FreshId(answers),
                                 response_id |-> responseId,
                                 question_id |-> questionId,
                                 answer_text |-> text,
                                 answer_options |-> options])
  /\ req' = [route |-> "rest", table |-> "answers"]
  /\ res' = [route |-> "rest", status |-> 201]
  /\ UNCHANGED <<users, surveys, questions, responses, inflight, store>>


(***************************************************************************)
(* Requests.  Each specification submits answers drawn from one family of  *)
(* sample payloads; the statistics request is the same in all of them.     *)
(***************************************************************************)
Body(surveyId, questionId, text, options) ==
  [survey_id |-> surveyId,
   answers |-> <<[question_id |-> questionId, answer_text |-> text,
                  answer_options |-> options]>>]

\* The statistics requests: the owner of s1 asking for every survey, every
\* other kind of requester asking for s1, and each failing database call.
StatsInputs ==
  ({TokenOf("u1")} \X RequestSurveyIds \X {"none"})
    \cup ((Tokens \ {TokenOf("u1")}) \X {"s1"} \X {"none"})
    \cup ({TokenOf("u1")} \X {"s1"} \X StatsFailures)
    \cup ({TokenOf("u2")} \X {"s2"} \X {"none"})

StatsRequest == \E in \in StatsInputs : GetStats(in[1], in[2], in[3])

\* The survey a submission names and the database call that fails during it.
SubmitTargets ==
  ({"s1"} \X SubmitFailures) \cup ({"s2", NoSurveyId} \X {"none"})

\* Only a submission that can be stored varies its payload.
Payloads(target, all) ==
  IF target = <<"s1", "none">> THEN all ELSE {CHOOSE x \in all : TRUE}

RatingTexts ==
  { JUndef, JStr(<<>>), JStr(<<"0">>), JStr(<<"4">>), JStr(<<"4", ".", "0">>),
    JStr(<<"5">>), JStr(<<"4", ".", "5">>), JStr(<<"4", "a", "b", "c">>),
    JStr(<<"a", "b", "c">>), JStr(InfinityLit), JStr(<<"-">> \o InfinityLit) }

SubmitRating ==
  \E target \in SubmitTargets : \E text \in Payloads(target, RatingTexts) :
     PostResponse(Body(target[1], "q2", text, JUndef), target[2])

NextRating == SubmitRating \/ StatsRequest

SpecRating == Init /\ [][NextRating]_vars

ChoiceOptions ==
  { JUndef, JArr(<<>>), JArr(<<OptA>>), JArr(<<OptB>>), JArr(<<OptZ>>),
    JArr(<<OptA, OptB>>), JArr(<<OptA, OptA>>) }

MultiOptions == { JArr(<<OptA>>), JArr(<<OptA, OptB>>) }

ChoicePayloads ==
  ({"q1"} \X ChoiceOptions) \cup ({"q4"} \X MultiOptions)

SubmitChoice ==
  \E target \in SubmitTargets : \E p \in Payloads(target, ChoicePayloads) :
     PostResponse(Body(target[1], p[1], JUndef, p[2]), target[2])

NextChoice == SubmitChoice \/ StatsRequest

SpecChoice == Init /\ [][NextChoice]_vars


TextTexts == { JUndef, JStr(<<>>), JStr(<<"x">>), JStr(<<"y">>) }

\* An answer to the text question q3, or a response that answers q1 only.
TextPayloads ==
  ({"q3"} \X TextTexts \X {JUndef}) \cup {<<"q1", JUndef, JArr(<<OptA>>)>>}

SubmitText ==
  \E target \in SubmitTargets : \E p \in Payloads(target, TextPayloads) :
     PostResponse(Body(target[1], p[1], p[2], p[3]), target[2])

NextText == SubmitText \/ StatsRequest

SpecText == Init /\ [][NextText]_vars

\* JSONB values that are not a list of strings.
MalformedOptions ==
  { JNull, JStr(<<"a">>), JStr(<<>>), JNum(Fin(0)), JObj, JArr(<<JNum(Fin(Scale))>>) }

SubmitPlain ==
  \E target \in SubmitTargets : \E options \in Payloads(target, {JArr(<<OptA>>), JUndef}) :
     PostResponse(Body(target[1], "q1", JUndef, options), target[2])

InsertMalformed ==
  \E r \in Range(responses), options \in MalformedOptions :
     AnonInsertAnswer(r.id, "q1", JNull, options)

NextMalformed == SubmitPlain \/ InsertMalformed \/ StatsRequest

SpecMalformed == Init /\ [][NextMalformed]_vars

(***************************************************************************)
(* Vocabulary of the properties.                                           *)
(***************************************************************************)
\* The last reply is a statistics result.
StatsOK == res.route = "stats" /\ res.status = 200

\* The per-question summaries of the result, by question type.
SummariesOf(types) ==
  {st \in Range(res.body.question_stats) : st.question_type \in types}

RECURSIVE SumValues(_)
\* The sum of the values of a tally object.
SumValues(obj) ==
  IF DOMAIN obj = {} THEN 0
  ELSE LET k == CHOOSE x \in DOMAIN obj : TRUE
       IN obj[k] + SumValues([y \in DOMAIN obj \ {k} |-> obj[y]])

\* The number of answers a rating summary counts.
DistTotal(st) ==
  IF "rating_distribution" \in DOMAIN st THEN SumValues(st.rating_distribution) ELSE 0

\* The text is missing, null or the empty string.
IsBlank(text) == text.t \in {"undefined", "null"} \/ text.v = <<>>

\* The whole text is a decimal numeral: an optional sign, then digits with an
\* optional fraction, and nothing else.
IsDecimalText(text) ==
  /\ ~IsBlank(text)
  /\ LET u == IF Head(text.v) \in {"+", "-"} THEN Tail(text.v) ELSE text.v
         dots == {i \in 1..Len(u) : u[i] = "."}
     IN /\ \A i \in 1..Len(u) : IsDigit(u[i]) \/ u[i] = "."
        /\ Cardinality(dots) <= 1
        /\ \E i \in 1..Len(u) : IsDigit(u[i])

\* The number a decimal numeral denotes, in units of 1/Scale.
DecimalValue(text) ==
  LET neg == Head(text.v) = "-"
      u == IF Head(text.v) \in {"+", "-"} THEN Tail(text.v) ELSE text.v
      dot == IF \E i \in 1..Len(u) : u[i] = "."
             THEN CHOOSE i \in 1..Len(u) : u[i] = "." ELSE Len(u) + 1
      whole == DigitsValue(SubSeq(u, 1, dot - 1))
      frac == SubSeq(u, dot + 1, Len(u))
  IN (IF neg THEN -1 ELSE 1)
       * (whole * Scale + DigitsValue(frac) * Pow10(FracDigits - Len(frac)))

\* The positions of the answers of a question that satisfy a test.
AnswersWhere(qid, Test(_)) ==
  {i \in 1..Len(AnswersOf(qid)) : Test(AnswersOf(qid)[i])}

HasBlankText(a) == IsBlank(a.answer_text)
HasDecimalText(a) == IsDecimalText(a.answer_text)
HasOtherText(a) == ~IsBlank(a.answer_text) /\ ~IsDecimalText(a.answer_text)

\* The sum of the values the decimal answers of a question denote.
RECURSIVE DecimalSum(_)
DecimalSum(as) ==
  IF as = <<>> THEN 0
  ELSE (IF HasDecimalText(Head(as)) THEN DecimalValue(Head(as).answer_text) ELSE 0)
         + DecimalSum(Tail(as))

(***************************************************************************)
(* Rating questions.                                                       *)
(***************************************************************************)
\* C1: a rating answer whose text is missing, null or empty is excluded from
\* the count and the average: the answers counted in rating_distribution
\* are at most the answers with a non-blank text.
C1_BlankExcluded ==
  StatsOK =>
    \A st \in SummariesOf({"rating"}) :
       DistTotal(st) <= Len(AnswersOf(st.id)) - Cardinality(AnswersWhere(st.id, HasBlankText))

\* C2: for a rating question with at least one parseable answer, the values
\* of rating_distribution sum to the number of parseable answers, which is
\* at most total_answers, and average_rating is the sum of the parsed values
\* divided by that number.
C2_RatingTotals ==
  StatsOK =>
    \A st \in SummariesOf({"rating"}) :
       LET count == Cardinality(AnswersWhere(st.id, HasDecimalText))
       IN count > 0 =>
            /\ DistTotal(st) = count
            /\ count <= st.total_answers
            /\ "average_rating" \in DOMAIN st
            /\ st.average_rating.t = "num"
            /\ st.average_rating.v.num * count * Scale
                 = DecimalSum(AnswersOf(st.id)) * st.average_rating.v.den


\* C3: rating answers whose texts denote the same number are counted in one
\* bucket, keyed by the canonical form of the number (no trailing zeros, no
\* decimal point for an integer): no second bucket denotes the same number.
C3_OneBucketPerNumber ==
  StatsOK =>
    \A st \in SummariesOf({"rating"}) :
       \A i \in AnswersWhere(st.id, HasDecimalText) :
          LET as == AnswersOf(st.id)
              v == DecimalValue(as[i].answer_text)
              same == {j \in AnswersWhere(st.id, HasDecimalText) :
                         DecimalValue(as[j].answer_text) = v}
              buckets == {k \in DOMAIN st.rating_distribution :
                            IsDecimalText(JStr(k)) /\ DecimalValue(JStr(k)) = v}
          IN /\ "rating_distribution" \in DOMAIN st
             /\ Cardinality(buckets) = 1
             /\ \A k \in buckets :
                   /\ st.rating_distribution[k] >= Cardinality(same)
                   /\ (v % Scale = 0) => "." \notin Range(k)
                   /\ "." \in Range(k) => k[Len(k)] # "0"

\* Answers "4" and "4.0" were submitted and the result holds the one bucket "4"
\* with count 2.
C3_Witness ==
  /\ StatsOK
  /\ \E i, j \in 1..Len(answers) :
        /\ answers[i].question_id = "q2" /\ answers[i].answer_text = JStr(<<"4">>)
        /\ answers[j].question_id = "q2" /\ answers[j].answer_text = JStr(<<"4", ".", "0">>)
  /\ \E st \in SummariesOf({"rating"}) :
        /\ st.id = "q2"
        /\ DOMAIN st.rating_distribution = {<<"4">>}
        /\ st.rating_distribution[<<"4">>] = 2

\* C9: a question with zero answers has total_answers = 0; a rating question
\* then has neither average_rating nor rating_distribution, a choice question
\* has an empty option_stats.
C9_NoAnswers ==
  StatsOK =>
    \A q \in QuestionsOf(res.body.survey.id) :
       AnswersOf(q.id) = <<>> =>
          \E st \in Range(res.body.question_stats) :
             /\ st.id = q.id
             /\ st.total_answers = 0
             /\ q.question_type = "rating" =>
                   /\ "average_rating" \notin DOMAIN st
                   /\ "rating_distribution" \notin DOMAIN st
             /\ IsChoice(q.question_type) =>
                   /\ "option_stats" \in DOMAIN st
                   /\ DOMAIN st.option_stats = {}

\* A result for s1 while its rating question and a choice question have no
\* answers although a response exists.
C9_Witness ==
  /\ StatsOK
  /\ res.body.survey.id = "s1"
  /\ res.body.total_responses > 0
  /\ AnswersOf("q2") = <<>>
  /\ AnswersOf("q4") = <<>>

\* C10: average_rating and rating_distribution count only answers whose whole
\* text is a finite decimal number: a text with a numeric prefix or a
\* non-finite value is not among the answers counted.
C10_OnlyDecimalTexts ==
  StatsOK =>
    \A st \in SummariesOf({"rating"}) :
       DistTotal(st) <= Len(AnswersOf(st.id)) - Cardinality(AnswersWhere(st.id, HasOtherText))


(***************************************************************************)
(* Text questions.                                                         *)
(***************************************************************************)
RECURSIVE NonEmptyTexts(_)
\* The non-empty answer texts of a question, in submission order.
NonEmptyTexts(as) ==
  IF as = <<>> THEN <<>>
  ELSE (IF IsBlank(Head(as).answer_text) THEN <<>> ELSE <<Head(as).answer_text.v>>)
         \o NonEmptyTexts(Tail(as))

\* C4: the summary of a text question exposes text_responses, the non-empty
\* answer texts of the question in submission order.
C4_TextResponses ==
  StatsOK =>
    \A st \in SummariesOf({"text"}) :
       /\ "text_responses" \in DOMAIN st
       /\ st.text_responses = NonEmptyTexts(AnswersOf(st.id))

(***************************************************************************)
(* Choice questions.                                                       *)
(***************************************************************************)
\* The answer's answer_options is a list of strings.
WellFormedOptions(a) ==
  /\ a.answer_options.t = "arr"
  /\ \A e \in Range(a.answer_options.v) : e.t = "str"

\* The option values (as keys) an answer selects; none unless well formed.
Selected(a) ==
  IF WellFormedOptions(a) THEN {e.v : e \in Range(a.answer_options.v)} ELSE {}

\* The number of answers of a question that contain the value.
AnswersContaining(qid, value) ==
  Cardinality({i \in 1..Len(AnswersOf(qid)) : value \in Selected(AnswersOf(qid)[i])})

\* How many times an answer lists the value.
Occurrences(a, value) ==
  IF WellFormedOptions(a)
  THEN Cardinality({i \in 1..Len(a.answer_options.v) : a.answer_options.v[i].v = value})
  ELSE 0

\* The option values defined on a question.
DefinedValues(qid) ==
  LET q == CHOOSE x \in questions : x.id = qid
  IN IF q.options.t = "arr" THEN {e.v : e \in Range(q.options.v)} ELSE {}

\* C5: an answer to a choice question whose answer_options is missing, null
\* or malformed counts in total_answers and in no option_stats entry, and
\* the statistics computation never fails on it.
C5_MalformedOptionsTolerated ==
  /\ ~(res.route = "stats" /\ res.status = 500 /\ res.error = "internal_error")
  /\ StatsOK =>
       \A st \in SummariesOf({"single_choice", "multiple_choice"}) :
          /\ st.total_answers = Len(AnswersOf(st.id))
          /\ \A k \in DOMAIN st.option_stats : AnswersContaining(st.id, k) > 0

\* C6: option_stats maps each selected option value to the number of answers
\* containing it; a value an answer lists twice counts once.
C6_CountsAnswers ==
  StatsOK =>
    \A st \in SummariesOf({"single_choice", "multiple_choice"}) :
       /\ \A i \in 1..Len(AnswersOf(st.id)) :
             Selected(AnswersOf(st.id)[i]) \subseteq DOMAIN st.option_stats
       /\ \A k \in DOMAIN st.option_stats :
             st.option_stats[k] = AnswersContaining(st.id, k)

C11_StoredOptionsDefined ==
  /\ \A i \in 1..Len(answers) :
        Selected(answers[i]) \subseteq DefinedValues(answers[i].question_id)
  /\ (req.route = "submit" /\ res.status = 201) =>
        \A a \in Range(req.body.answers) :
           Selected(a) \subseteq DefinedValues(a.question_id)


(***************************************************************************)
(* GET /api/responses/survey/:surveyId                                     *)
(***************************************************************************)
\* The answers(...) resource embedded in a response row.
AnswersOfResponse(rid) ==
  LET Of(a) == a.response_id = rid
  IN SelectSeq(answers, Of)

\* .from('responses').select(...).eq('survey_id', id).order('submitted_at',
\* {ascending: false}): the latest row first.
ResponsesOf(id) ==
  LET Of(r) == r.survey_id = id
      rows == SelectSeq(responses, Of)
  IN [i \in 1..Len(rows) |->
        [id |-> rows[Len(rows) + 1 - i].id,
         answers |-> AnswersOfResponse(rows[Len(rows) + 1 - i].id)]]

ListFailures == {"none", "survey", "responses"}

\* The response of authenticateToken followed by the handler.
ListResponse(token, surveyId, fail) ==
  LET found == SurveyRows(surveyId)
      survey == CHOOSE sv \in found : TRUE
  IN IF token.kind = "none" THEN Reply("list", 401, "token_missing")
     ELSE IF token.kind = "invalid" THEN Reply("list", 403, "token_invalid")
     ELSE IF fail = "survey" \/ found = {} THEN Reply("list", 404, "survey_not_found")
     ELSE IF survey.creator_id # token.id THEN Reply("list", 403, "not_owner")
     ELSE IF fail = "responses" THEN Reply("list", 500, "list_failed")
     ELSE [route |-> "list", status |-> 200,
           body |-> [survey |-> [id |-> survey.id, title |-> survey.title],
                     responses |-> ResponsesOf(surveyId),
                     total_responses |-> Len(ResponsesOf(surveyId))]]

GetResponses(token, surveyId, fail) ==
  /\ req' = [route |-> "list", token |-> token, survey_id |-> surveyId, fail |-> fail]
  /\ res' = ListResponse(token, surveyId, fail)
  /\ UNCHANGED <<tables, inflight, store>>

(***************************************************************************)
(* GET /api/surveys/:id                                                    *)
(***************************************************************************)
\* optionalAuth: the decoded payload when the token verifies, else no user.
OptionalUser(token) == IF token.kind = "valid" THEN token.id ELSE "nobody"

DetailBody(survey, id) ==
  [survey |-> [id |-> survey.id, title |-> survey.title, status |-> survey.status,
               creator |-> survey.creator_id],
   questions |-> OrderByIndex(QuestionsOf(id))]

\* The access check with `!user` alone: whoever is logged in passes.
DetailResponseAnyUser(token, id, fail) ==
  LET found == SurveyRows(id)
      survey == CHOOSE sv \in found : TRUE
      user == OptionalUser(token)
  IN IF fail = "survey" \/ found = {} THEN Reply("detail", 404, "survey_not_found")
     ELSE IF survey.status # "published" /\ user = "nobody"
     THEN Reply("detail", 403, "no_access")
     ELSE IF fail = "questions" THEN Reply("detail", 500, "questions_failed")
     ELSE [route |-> "detail", status |-> 200, body |-> DetailBody(survey, id)]

\* The response of optionalAuth followed by the handler.
DetailResponse(token, id, fail) ==
  LET found == SurveyRows(id)
      survey == CHOOSE sv \in found : TRUE
      user == OptionalUser(token)
  IN IF fail = "survey" \/ found = {} THEN Reply("detail", 404, "survey_not_found")
     ELSE IF survey.status # "published" /\ (user = "nobody" \/ user # survey.creator_id)
     THEN Reply("detail", 403, "no_access")
     ELSE IF fail = "questions" THEN Reply("detail", 500, "questions_failed")
     ELSE [route |-> "detail", status |-> 200, body |-> DetailBody(survey, id)]

GetSurvey(token, id, fail) ==
  /\ req' = [route |-> "detail", token |-> token, survey_id |-> id, fail |-> fail]
  /\ res' = DetailResponse(token, id, fail)
  /\ UNCHANGED <<tables, inflight, store>>

(***************************************************************************)
(* PUT /api/surveys/:id, DELETE /api/surveys/:id and                       *)
(* POST /api/surveys/:id/questions                                         *)
(***************************************************************************)
\* The checks without the comparison of creator_id with the user's id.
OwnerRejectionAnyUser(route, token, id) ==
  IF token.kind = "none" THEN Reply(route, 401, "token_missing")
  ELSE IF token.kind = "invalid" THEN Reply(route, 403, "token_invalid")
  ELSE IF SurveyRows(id) = {} THEN Reply(route, 404, "survey_not_found")
  ELSE NoResponse

\* The reply of authenticateToken and of the existence and ownership checks
\* the three routes share, or NoResponse when the request passes them.
OwnerRejection(route, token, id) ==
  LET found == SurveyRows(id)
      survey == CHOOSE sv \in found : TRUE
  IN IF token.kind = "none" THEN Reply(route, 401, "token_missing")
     ELSE IF token.kind = "invalid" THEN Reply(route, 403, "token_invalid")
     ELSE IF found = {} THEN Reply(route, 404, "survey_not_found")
     ELSE IF survey.creator_id # token.id THEN Reply(route, 403, "not_owner")
     ELSE NoResponse

SurveyStatuses == {"draft", "published", "closed"}

\* surveySchema: a title, and a status that is optional.
SurveySchemaOk(body) == body.status \in SurveyStatuses \cup {"undefined"}

\* .update(validatedData).eq('id', id)
UpdatedSurvey(sv, body) ==
  [sv EXCEPT !.title = body.title,
             !.status = IF body.status = "undefined" THEN @ ELSE body.status]

UpdateSurvey(token, id, body) ==
  LET rejection == IF token.kind = "valid" /\ ~SurveySchemaOk(body)
                   THEN Reply("update", 400, "invalid_body")
                   ELSE OwnerRejection("update", token, id)
  IN /\ req' = [route |-> "update", token |-> token, survey_id |-> id, body |-> body]
     /\ IF rejection # NoResponse
        THEN /\ res' = rejection
             /\ UNCHANGED <<tables, inflight, store>>
        ELSE /\ surveys' = {IF sv.id = id THEN UpdatedSurvey(sv, body) ELSE sv : sv \in surveys}
             /\ res' = [route |-> "update", status |-> 200]
             /\ UNCHANGED <<users, questions, responses, answers, inflight, store>>

\* ON DELETE CASCADE from surveys to questions and responses, and from those
\* to answers: the rows that remain once survey id is deleted.
QuestionsAfterDelete(id) == {q \in questions : q.survey_id # id}

ResponsesAfterDelete(id) ==
  LET Kept(r) == r.survey_id # id
  IN SelectSeq(responses, Kept)

\* No cascade from responses and questions to answers: every answer stays.
AnswersKeptAfterDelete(id) == answers

AnswersAfterDelete(id) ==
  LET Kept(a) == /\ \E r \in Range(ResponsesAfterDelete(id)) : r.id = a.response_id
                 /\ \E q \in QuestionsAfterDelete(id) : q.id = a.question_id
  IN SelectSeq(answers, Kept)

DeleteSurvey(token, id) ==
  LET rejection == OwnerRejection("delete", token, id)
  IN /\ req' = [route |-> "delete", token |-> token, survey_id |-> id]
     /\ IF rejection # NoResponse
        THEN /\ res' = rejection
             /\ UNCHANGED <<tables, inflight, store>>
        ELSE /\ surveys' = {sv \in surveys : sv.id # id}
             /\ questions' = QuestionsAfterDelete(id)
             /\ responses' = ResponsesAfterDelete(id)
             /\ answers' = AnswersAfterDelete(id)
             /\ res' = [route |-> "delete", status |-> 200]
             /\ UNCHANGED <<users, inflight, store>>

\* The ids gen_random_uuid() gives to the questions added later.
NewQuestionIds == {"q6"}

AddQuestion(token, id, body) ==
  LET rejection == OwnerRejection("add_question", token, id)
      unused == {i \in NewQuestionIds : \A q \in questions : q.id # i}
      questionId == CHOOSE i \in unused : TRUE
  IN /\ req' = [route |-> "add_question", token |-> token, survey_id |-> id, body |-> body]
     /\ IF rejection # NoResponse
        THEN /\ res' = rejection
             /\ UNCHANGED <<tables, inflight, store>>
        ELSE /\ unused # {}
             /\ questions' = questions \cup
                  {[id |-> questionId, survey_id |-> id,
                    question_text |-> body.question_text,
                    question_type |-> body.question_type,
                    options |-> body.options,
                    is_required |-> body.is_required,
                    order_index |-> body.order_index]}
             /\ res' = [route |-> "add_question", status |-> 201, question_id |-> questionId]
             /\ UNCHANGED <<users, surveys, responses, answers, inflight, store>>

(***************************************************************************)
(* A row written to the responses table through the database's REST        *)
(* interface with the anon key: the anon role holds INSERT on responses    *)
(* and the insert policy checks nothing but the foreign key.               *)
(***************************************************************************)
AnonInsertResponse(surveyId) ==
  /\ Len(responses) < MaxAnswers
  /\ SurveyRows(surveyId) # {}
  /\ responses' = Append(responses, [id |-> FreshId(responses), survey_id |-> surveyId])
  /\ req' = [route |-> "rest", table |-> "responses"]
  /\ res' = [route |-> "rest", status |-> 201]
  /\ UNCHANGED <<users, surveys, questions, answers, inflight, store>>


(***************************************************************************)
(* The API as a whole: every route above, each request handled in one      *)
(* step, over three surveys.  s3 is published and has no question.         *)
(***************************************************************************)
EmptySurvey == [id |-> "s3", title |-> "T3", creator_id |-> "u2", status |-> "published"]

ApiSurveyIds == {"s1", "s2", "s3", NoSurveyId}

InitApi ==
  /\ users = SeedUsers
  /\ surveys = SeedSurveys \cup {EmptySurvey}
  /\ questions = SeedQuestions
  /\ responses = <<>>
  /\ answers = <<>>
  /\ req = NoRequest
  /\ res = NoResponse
  /\ subm = Idle
  /\ stat = Idle
  /\ reg = NoRegistrations
  /\ store = InitialStore

\* Sample answers: to q1 of s1, to q5 of s2 and to a question added later.
AnswerTo(questionId) ==
  [question_id |-> questionId,
   answer_text |-> IF questionId = "q1" THEN JUndef ELSE JStr(<<"4">>),
   answer_options |-> IF questionId = "q1" THEN JArr(<<OptA>>) ELSE JUndef]

\* The sample submissions: one that each survey can accept, ones that name a
\* question of another survey or leave a required question out, and each
\* failing database call during a submission to s1.
ApiSubmitInputs ==
  { <<[survey_id |-> "s1", answers |-> <<AnswerTo("q1")>>], f>> : f \in SubmitFailures }
    \cup { <<[survey_id |-> in[1], answers |-> in[2]], "none">> :
             in \in { <<"s1", <<AnswerTo("q5")>> >>,
                      <<"s1", <<AnswerTo("q1"), AnswerTo("q6")>> >>,
                      <<"s2", <<AnswerTo("q5")>> >>,
                      <<"s2", <<AnswerTo("q1")>> >>,
                      <<"s2", <<AnswerTo("q1"), AnswerTo("q5")>> >>,
                      <<"s3", <<AnswerTo("q6")>> >>,
                      <<NoSurveyId, <<AnswerTo("q1")>> >> } }

SubmitApi ==
  /\ Len(responses) < MaxResponses
  /\ \E in \in ApiSubmitInputs : PostResponse(in[1], in[2])

\* The owner of each survey asking for it, every other kind of requester
\* asking for s1, a survey that does not exist, and each failing database call.
ApiStatsInputs ==
  { <<TokenOf("u1"), "s1", "none">>, <<TokenOf("u2"), "s2", "none">>,
    <<TokenOf("u2"), "s3", "none">>, <<TokenOf("u1"), NoSurveyId, "none">> }
    \cup ((Tokens \ {TokenOf("u1")}) \X {"s1"} \X {"none"})
    \cup ({TokenOf("u1")} \X {"s1"} \X StatsFailures)

StatsApi == \E in \in ApiStatsInputs : GetStats(in[1], in[2], in[3])

ApiListInputs ==
  { <<TokenOf("u1"), "s1", "none">>, <<TokenOf("u2"), "s3", "none">>,
    <<TokenOf("u1"), NoSurveyId, "none">> }
    \cup ((Tokens \ {TokenOf("u1")}) \X {"s1"} \X {"none"})
    \cup ({TokenOf("u1")} \X {"s1"} \X ListFailures)

ListApi == \E in \in ApiListInputs : GetResponses(in[1], in[2], in[3])

\* The owner publishing or closing s2, and requests that are refused.
ApiUpdateInputs ==
  { <<TokenOf("u2"), "s2", [title |-> "T2", status |-> "published"]>>,
    <<TokenOf("u2"), "s2", [title |-> "T2", status |-> "closed"]>>,
    <<TokenOf("u2"), "s2", [title |-> "T2", status |-> "undefined"]>>,
    <<TokenOf("u2"), "s2", [title |-> "T2", status |-> "archived"]>>,
    <<TokenOf("u1"), "s2", [title |-> "T2", status |-> "published"]>>,
    <<TokenOf("u1"), NoSurveyId, [title |-> "T1", status |-> "draft"]>>,
    <<NoToken, "s2", [title |-> "T2", status |-> "published"]>> }

UpdateApi == \E in \in ApiUpdateInputs : UpdateSurvey(in[1], in[2], in[3])

ApiDeleteInputs ==
  { <<TokenOf("u1"), "s1">>, <<TokenOf("u2"), "s1">>,
    <<TokenOf("u1"), NoSurveyId>>, <<NoToken, "s1">> }

DeleteApi == \E in \in ApiDeleteInputs : DeleteSurvey(in[1], in[2])

\* A required text question; questionSchema accepts it.
NewQuestion(orderIndex) ==
  [question_text |-> "Q", question_type |-> "text", options |-> JNull,
   is_required |-> TRUE, order_index |-> orderIndex]

ApiAddQuestionInputs ==
  { <<TokenOf("u1"), "s1", NewQuestion(5)>>, <<TokenOf("u2"), "s1", NewQuestion(5)>>,
    <<TokenOf("u2"), "s3", NewQuestion(0)>>, <<TokenOf("u1"), NoSurveyId, NewQuestion(0)>>,
    <<NoToken, "s1", NewQuestion(5)>> }

AddQuestionApi == \E in \in ApiAddQuestionInputs : AddQuestion(in[1], in[2], in[3])

InsertResponseApi ==
  /\ Len(responses) < MaxResponses
  /\ AnonInsertResponse("s3")

\* Every kind of requester asking for s1 and for s2, a survey that does not
\* exist, and each failing database call.
ApiDetailInputs ==
  (Tokens \X {"s1", "s2"} \X {"none"})
    \cup { <<NoToken, NoSurveyId, "none">>, <<NoToken, "s1", "survey">>,
           <<NoToken, "s1", "questions">> }

DetailApi == \E in \in ApiDetailInputs : GetSurvey(in[1], in[2], in[3])

Next ==
  \/ SubmitApi
  \/ StatsApi
  \/ ListApi
  \/ UpdateApi
  \/ DeleteApi
  \/ AddQuestionApi
  \/ InsertResponseApi
  \/ DetailApi

Spec == InitApi /\ [][Next]_vars


(***************************************************************************)
(* Properties of the API as a whole.                                       *)
(***************************************************************************)
\* A published survey with this id exists.
IsPublished(id) == \E sv \in surveys : sv.id = id /\ sv.status = "published"

\* Some answer of the body names a question that is not a question of the
\* survey the body names.
NamesForeignQuestion(body) ==
  \E a \in Range(body.answers) :
     \A q \in questions : q.id = a.question_id => q.survey_id # body.survey_id

\* Every stored answer belongs to a stored response and to a question of
\* that response's survey.
AnswersWithinSurvey ==
  \A a \in Range(answers) :
     \E r \in Range(responses), q \in questions :
        r.id = a.response_id /\ q.id = a.question_id /\ q.survey_id = r.survey_id

\* A submission that names a foreign question stores nothing and is not
\* accepted; when it reaches the check of the ids the reply is 400.
ForeignQuestionRejected ==
  (req'.route = "submit" /\ NamesForeignQuestion(req'.body)) =>
     /\ UNCHANGED tables
     /\ res'.status # 201
     /\ (IsPublished(req'.body.survey_id) /\ req'.fail = "none") => res'.status = 400

\* C12: after any sequence of submissions every stored answer references a
\* question of the same survey as its response, and a submission containing a
\* question id of another survey is answered 400 and persists nothing.
C12_AnswersReferenceOwnSurvey ==
  /\ []AnswersWithinSurvey
  /\ [][ForeignQuestionRejected]_vars

\* A submission to s1 that names q5 of s2 has been refused while an answer
\* of an earlier submission is stored.
C12_Witness ==
  /\ req.route = "submit" /\ req.body.survey_id = "s1"
  /\ \E a \in Range(req.body.answers) : a.question_id = "q5"
  /\ res.status = 400 /\ res.error = "invalid_question"
  /\ Len(answers) > 0


\* The last request asked for the statistics or the raw responses of a survey.
IsRead == req.route \in {"stats", "list"}

\* The requester of the last request is logged in as the creator of the
\* survey the request names.
RequesterOwns ==
  /\ req.token.kind = "valid"
  /\ \E sv \in surveys : sv.id = req.survey_id /\ sv.creator_id = req.token.id

\* C13: the statistics and the raw response list of a survey are returned
\* only to a request with a valid token whose user is the survey's creator;
\* another logged-in user gets 403 and no data, and a survey that does not
\* exist gets 404.
C13_OwnerOnlyReads ==
  IsRead =>
    /\ res.status = 200 => (RequesterOwns /\ res.body.survey.id = req.survey_id)
    /\ "body" \in DOMAIN res => res.status = 200
    /\ (req.token.kind = "valid" /\ SurveyRows(req.survey_id) # {} /\ ~RequesterOwns)
          => res.status = 403
    /\ (req.token.kind = "valid" /\ SurveyRows(req.survey_id) = {}) => res.status = 404

\* User u2 has asked for the statistics of u1's survey s1, which holds a
\* response, and has been refused.
C13_Witness ==
  /\ req.route = "stats" /\ req.token = TokenOf("u2") /\ req.survey_id = "s1"
  /\ res.status = 403
  /\ ResponseCount("s1") > 0


\* A step that handles a statistics request changes no table.
StatsStepReadsOnly ==
  req'.route = "stats" =>
     /\ res'.status \in {200, 401, 403, 404, 500}
     /\ UNCHANGED <<users, surveys, questions, responses, answers>>

\* C14: a statistics request, whatever its outcome (200, 403, 404 or 500),
\* leaves users, surveys, questions, responses and answers unchanged.
C14_StatsReadOnly == [][StatsStepReadsOnly]_vars

\* A statistics request has been served from tables that hold answers.
C14_Witness ==
  /\ req.route = "stats" /\ res.status = 200
  /\ res.body.total_responses > 0
  /\ Len(answers) > 0


\* The stored questions of the survey the last request names.
RequestedQuestions == {q \in questions : q.survey_id = req.survey_id}

\* The order_index of the stored question a summary is about.
OrderIndexOf(st) == (CHOOSE q \in questions : q.id = st.id).order_index

\* C15: question_stats holds exactly one summary for each question of the
\* requested survey, in ascending order_index, and none for a question of
\* another survey; for a survey without questions it is the empty list while
\* total_responses is still the number of the survey's responses.
C15_OneSummaryPerQuestion ==
  (req.route = "stats" /\ res.status = 200) =>
    LET st == res.body.question_stats
    IN /\ Len(st) = Cardinality(RequestedQuestions)
       /\ {st[i].id : i \in 1..Len(st)} = {q.id : q \in RequestedQuestions}
       /\ \A i, j \in 1..Len(st) : i < j => OrderIndexOf(st[i]) <= OrderIndexOf(st[j])
       /\ RequestedQuestions = {} => st = <<>>
       /\ res.body.total_responses =
            Cardinality({i \in 1..Len(responses) : responses[i].survey_id = req.survey_id})

\* The statistics of s1 have been served after a fifth question was added to
\* it, while s2 holds a question of its own.
C15_Witness ==
  /\ req.route = "stats" /\ req.survey_id = "s1" /\ res.status = 200
  /\ Len(res.body.question_stats) = 5
  /\ \E q \in questions : q.survey_id = "s2"

\* The statistics of s3, which has a response and no question, have been served.
C15_EmptySurveyServed ==
  /\ req.route = "stats" /\ req.survey_id = "s3" /\ res.status = 200
  /\ res.body.question_stats = <<>>
  /\ res.body.total_responses > 0


\* The fields a summary is to carry; the consuming page looks summaries up by
\* question_id.
ClientSummaryFields == {"question_id", "question_text", "question_type", "total_answers"}

\* C16: each per-question summary of a statistics result carries the fields
\* question_id, question_text, question_type and total_answers, the shape the
\* consuming client reads.
C16_SummaryShape ==
  (req.route = "stats" /\ res.status = 200) =>
     \A st \in Range(res.body.question_stats) : ClientSummaryFields \subseteq DOMAIN st


\* The status of the survey with this id, or "none" when no such row exists.
StatusOf(id) ==
  IF \E sv \in surveys : sv.id = id
  THEN (CHOOSE sv \in surveys : sv.id = id).status
  ELSE "none"

\* A step that handles a submission: accepted only when the survey is
\* published as the step begins; 400 for a draft or closed survey and 404 for
\* a missing one, with no row written.
SubmitChecksStatus ==
  req'.route = "submit" =>
     LET status == StatusOf(req'.body.survey_id)
     IN /\ res'.status = 201 => status = "published"
        /\ status \in {"draft", "closed"} => (res'.status = 400 /\ UNCHANGED tables)
        /\ status = "none" => (res'.status = 404 /\ UNCHANGED tables)

\* C19: a submission is accepted only for a survey whose status is
\* 'published' when it is checked; for a draft or closed survey it is
\* rejected with 400, for a survey that does not exist with 404, and in both
\* cases no response row and no answer row is created.
C19_OnlyPublishedAccepted == [][SubmitChecksStatus]_vars

\* A submission to s2 has been refused after s2 was closed, s2 holding a
\* response from the time it was published.
C19_Witness ==
  /\ req.route = "submit" /\ req.body.survey_id = "s2"
  /\ StatusOf("s2") = "closed"
  /\ res.status = 400 /\ res.error = "not_published"
  /\ ResponseCount("s2") > 0

\* The questions of the survey that are required and that the body leaves out.
OmittedRequired(body) ==
  {q \in questions : /\ q.survey_id = body.survey_id
                     /\ q.is_required
                     /\ \A a \in Range(body.answers) : a.question_id # q.id}

\* A step that handles a submission to a published survey and no database
\* call fails: when a required question is left out the reply is 400 and no
\* row is written; when the submission is stored, the new response has an
\* answer row for every question of the survey that is required.
SubmitChecksRequired ==
  (req'.route = "submit" /\ StatusOf(req'.body.survey_id) = "published"
     /\ req'.fail = "none") =>
     /\ OmittedRequired(req'.body) # {} => (res'.status = 400 /\ UNCHANGED tables)
     /\ res'.status = 201 =>
          \A q \in questions :
             (q.survey_id = req'.body.survey_id /\ q.is_required) =>
                \E a \in Range(answers') :
                   a.response_id = res'.response_id /\ a.question_id = q.id

\* C20: a submission whose answers omit the id of a required question of the
\* survey is rejected with 400 and creates no response and no answers; hence
\* every stored response has an answer row for every question that was
\* required when it was submitted.
C20_RequiredAnswered == [][SubmitChecksRequired]_vars

\* A submission to s1 that leaves out the required question added to s1 has
\* been refused.
C20_Witness ==
  /\ req.route = "submit" /\ req.body.survey_id = "s1"
  /\ \E q \in questions : q.survey_id = "s1" /\ q.is_required
  /\ res.status = 400 /\ res.error = "required_missing"

\* A submission has been stored for a survey that has a required question.
C20_StoredWithRequired ==
  /\ req.route = "submit" /\ res.status = 201
  /\ \E q \in questions : q.survey_id = req.body.survey_id /\ q.is_required


(***************************************************************************)
(* The handlers step by step.  Each await of POST /api/responses and of     *)
(* GET /survey/:surveyId/stats is one step, so that a submission, a         *)
(* statistics request and a deletion interleave between database calls.     *)
(* subm and stat hold what the handler in progress has read so far; req     *)
(* and res are set when a handler replies.                                  *)
(***************************************************************************)
\* The handler replies and ends.
SubmitReply(body, fail, reply) ==
  /\ req' = SubmitRequestOf(body, fail)
  /\ res' = reply
  /\ subm' = Idle

\* zod parse, the survey lookup and the status check (lines 31-47).
SubmitBegin(body, fail) ==
  LET found == SurveyRows(body.survey_id)
      survey == CHOOSE sv \in found : TRUE
  IN /\ subm = Idle
     /\ Len(responses) < MaxResponses
     /\ IF ~ResponseSchemaOk(body)
        THEN SubmitReply(body, fail, Reply("submit", 400, "invalid_body"))
        ELSE IF fail = "survey" \/ found = {}
        THEN SubmitReply(body, fail, Reply("submit", 404, "survey_not_found"))
        ELSE IF survey.status # "published"
        THEN SubmitReply(body, fail, Reply("submit", 400, "not_published"))
        ELSE /\ subm' = [pc |-> "checked", body |-> body, fail |-> fail]
             /\ UNCHANGED <<req, res>>
     /\ UNCHANGED <<tables, stat, reg, store>>

\* The questions query and the checks of required and valid ids (lines 49-78).
SubmitValidate ==
  /\ subm.pc = "checked"
  /\ IF subm.fail = "questions"
     THEN SubmitReply(subm.body, subm.fail, Reply("submit", 500, "questions_failed"))
     ELSE IF RequiredMissing(subm.body)
     THEN SubmitReply(subm.body, subm.fail, Reply("submit", 400, "required_missing"))
     ELSE IF InvalidQuestionId(subm.body)
     THEN SubmitReply(subm.body, subm.fail, Reply("submit", 400, "invalid_question"))
     ELSE /\ subm' = [subm EXCEPT !.pc = "validated"]
          /\ UNCHANGED <<req, res>>
  /\ UNCHANGED <<tables, stat, reg, store>>

\* The insert into responses (lines 80-94); survey_id REFERENCES surveys(id).
SubmitInsertResponse ==
  /\ subm.pc = "validated"
  /\ IF subm.fail = "response" \/ SurveyRows(subm.body.survey_id) = {}
     THEN /\ SubmitReply(subm.body, subm.fail, Reply("submit", 500, "submit_failed"))
          /\ UNCHANGED responses
     ELSE /\ responses' = Append(responses, [id |-> FreshId(responses),
                                             survey_id |-> subm.body.survey_id])
          /\ subm' = [pc |-> "inserted", body |-> subm.body, fail |-> subm.fail,
                      response_id |-> FreshId(responses)]
          /\ UNCHANGED <<req, res>>
  /\ UNCHANGED <<users, surveys, questions, answers, stat, reg, store>>

\* The rows of the batch reference a stored response and stored questions.
AnswerKeysHold(body, responseId) ==
  /\ \E r \in Range(responses) : r.id = responseId
  /\ \A a \in Range(body.answers) : \E q \in questions : q.id = a.question_id

\* The batch insert into answers (lines 96-107) and the 201 reply (115-118).
SubmitInsertAnswers ==
  /\ subm.pc = "inserted"
  /\ IF subm.fail \in {"answers", "answers_delete"}
        \/ ~AnswerKeysHold(subm.body, subm.response_id)
     THEN /\ subm' = [subm EXCEPT !.pc = "failed"]
          /\ UNCHANGED <<answers, req, res>>
     ELSE /\ answers' = AnswersToInsert(subm.body.answers, subm.response_id, answers)
          /\ SubmitReply(subm.body, subm.fail,
                         [route |-> "submit", status |-> 201,
                          response_id |-> subm.response_id])
  /\ UNCHANGED <<users, surveys, questions, responses, stat, reg, store>>

\* .from('responses').delete().eq('id', response.id) and the 500 reply
\* (lines 109-113); the answers of the row go with it.  The result of the
\* delete is not looked at: when the call returns an error the row stays and
\* the reply is the same.
SubmitCompensate ==
  LET Kept(r) == r.id # subm.response_id
      KeptAnswer(a) == a.response_id # subm.response_id
  IN /\ subm.pc = "failed"
     /\ IF subm.fail = "answers_delete"
        THEN UNCHANGED <<responses, answers>>
        ELSE /\ responses' = SelectSeq(responses, Kept)
             /\ answers' = SelectSeq(answers, KeptAnswer)
     /\ SubmitReply(subm.body, subm.fail, Reply("submit", 500, "answers_failed"))
     /\ UNCHANGED <<users, surveys, questions, stat, reg, store>>

StatsReply(token, surveyId, fail, reply) ==
  /\ req' = StatsRequestOf(token, surveyId, fail)
  /\ res' = reply
  /\ stat' = Idle

\* authenticateToken, the survey lookup and the owner check (lines 189-207).
StatsBegin(token, surveyId, fail) ==
  LET found == SurveyRows(surveyId)
      survey == CHOOSE sv \in found : TRUE
  IN /\ stat = Idle
     /\ IF token.kind = "none"
        THEN StatsReply(token, surveyId, fail, Reply("stats", 401, "token_missing"))
        ELSE IF token.kind = "invalid"
        THEN StatsReply(token, surveyId, fail, Reply("stats", 403, "token_invalid"))
        ELSE IF fail = "survey" \/ found = {}
        THEN StatsReply(token, surveyId, fail, Reply("stats", 404, "survey_not_found"))
        ELSE IF survey.creator_id # token.id
        THEN StatsReply(token, surveyId, fail, Reply("stats", 403, "not_owner"))
        ELSE /\ stat' = [pc |-> "authorized", token |-> token, survey_id |-> surveyId,
                         fail |-> fail,
                         survey |-> [id |-> survey.id, title |-> survey.title]]
             /\ UNCHANGED <<req, res>>
     /\ UNCHANGED <<tables, subm, reg, store>>

\* The count query on responses (lines 209-218).
StatsCount ==
  /\ stat.pc = "authorized"
  /\ IF stat.fail = "count"
     THEN StatsReply(stat.token, stat.survey_id, stat.fail,
                     Reply("stats", 500, "stats_failed"))
     ELSE /\ stat' = [pc |-> "counted", token |-> stat.token,
                      survey_id |-> stat.survey_id, fail |-> stat.fail,
                      survey |-> stat.survey,
                      total_responses |-> ResponseCount(stat.survey_id)]
          /\ UNCHANGED <<req, res>>
  /\ UNCHANGED <<tables, subm, reg, store>>

\* The questions query with the embedded answers, the summaries and the reply
\* (lines 220-282).
StatsFinish ==
  LET qs == OrderByIndex(QuestionsOf(stat.survey_id))
  IN /\ stat.pc = "counted"
     /\ StatsReply(stat.token, stat.survey_id, stat.fail,
          IF stat.fail = "questions" THEN Reply("stats", 500, "stats_failed")
          ELSE IF StatsThrow(qs) THEN Reply("stats", 500, "internal_error")
          ELSE [route |-> "stats", status |-> 200,
                body |-> [survey |-> stat.survey,
                          total_responses |-> stat.total_responses,
                          question_stats |-> [i \in 1..Len(qs) |-> QuestionStat(qs[i])]]])
     /\ UNCHANGED <<tables, subm, reg, store>>

\* Submissions to s1 that hold exactly one answer, to q1, with each failure of
\* the two inserts, and submissions that are refused.
ConcurrentSubmitInputs ==
  { <<[survey_id |-> "s1", answers |-> <<AnswerTo("q1")>>], f>> :
       f \in {"none", "response", "answers"} }
    \cup { <<[survey_id |-> "s2", answers |-> <<AnswerTo("q5")>>], "none">>,
           <<[survey_id |-> "s1", answers |-> <<AnswerTo("q5")>>], "none">> }

ConcurrentStatsInputs ==
  { <<TokenOf("u1"), "s1", "none">>, <<TokenOf("u2"), "s1", "none">>,
    <<TokenOf("u1"), "s1", "count">>, <<TokenOf("u1"), "s1", "questions">> }

ConcurrentDeleteInputs == { <<TokenOf("u1"), "s1">>, <<TokenOf("u2"), "s1">> }

SubmitBegins == \E in \in ConcurrentSubmitInputs : SubmitBegin(in[1], in[2])

StatsBegins == \E in \in ConcurrentStatsInputs : StatsBegin(in[1], in[2], in[3])

Deletes == \E in \in ConcurrentDeleteInputs : DeleteSurvey(in[1], in[2])

NextConcurrent ==
  \/ SubmitBegins
  \/ SubmitValidate
  \/ SubmitInsertResponse
  \/ SubmitInsertAnswers
  \/ SubmitCompensate
  \/ StatsBegins
  \/ StatsCount
  \/ StatsFinish
  \/ Deletes

SpecConcurrent == Init /\ [][NextConcurrent]_vars

\* Each question and each response references a stored survey, and each
\* answer a stored response and a stored question.
NoOrphans ==
  /\ \A q \in questions : \E sv \in surveys : sv.id = q.survey_id
  /\ \A r \in Range(responses) : \E sv \in surveys : sv.id = r.survey_id
  /\ \A a \in Range(answers) :
        /\ \E r \in Range(responses) : r.id = a.response_id
        /\ \E q \in questions : q.id = a.question_id

\* C17: deleting a survey removes all of its questions, responses and
\* answers, and deleting a response removes its answers: in every reachable
\* state each question and response references an existing survey and each
\* answer an existing response and an existing question.
C17_NoOrphans ==
  /\ NoOrphans
  /\ (req.route = "delete" /\ res.status = 200) =>
        /\ \A q \in questions : q.survey_id # req.survey_id
        /\ \A r \in Range(responses) : r.survey_id # req.survey_id

\* Survey s1 has been deleted while a submission to it had stored its
\* response row and not yet its answers.
C17_Witness ==
  /\ req.route = "delete" /\ res.status = 200
  /\ subm.pc = "inserted"
  /\ SurveyRows("s1") = {}

\* The summary of q1 in the last statistics result.
SummaryOf(qid) == CHOOSE st \in Range(res.body.question_stats) : st.id = qid

\* C18: a statistics result is computed from one consistent snapshot even
\* when a submission runs concurrently: it counts no response whose answers
\* are absent from the summaries and no answers of a response it does not
\* count.  Every response stored here holds exactly one answer, to q1, so in
\* a snapshot the answers of q1 are as many as the responses.
C18_ConsistentSnapshot ==
  (req.route = "stats" /\ res.status = 200
     /\ \E st \in Range(res.body.question_stats) : st.id = "q1") =>
     SummaryOf("q1").total_answers = res.body.total_responses


(***************************************************************************)
(* Submissions step by step with every database call of the two inserts    *)
(* and of the compensating delete able to return an error.                 *)
(***************************************************************************)
FailingSubmitInputs ==
  { <<[survey_id |-> "s1", answers |-> as], f>> :
       as \in { <<AnswerTo("q1")>>, <<AnswerTo("q1"), AnswerTo("q1")>> },
       f \in {"none", "questions", "response", "answers", "answers_delete"} }

SubmitBeginsFailing == \E in \in FailingSubmitInputs : SubmitBegin(in[1], in[2])

NextFailing ==
  \/ SubmitBeginsFailing
  \/ SubmitValidate
  \/ SubmitInsertResponse
  \/ SubmitInsertAnswers
  \/ SubmitCompensate
  \/ StatsBegins
  \/ StatsCount
  \/ StatsFinish

SpecFailing == Init /\ [][NextFailing]_vars

\* C21: a submission is all-or-nothing: when the insert of the answers fails
\* after the response row was created, the row is deleted and 500 is
\* returned, so once a submission request has completed a response row exists
\* if and only if all of its submitted answers were stored.
C21_AllOrNothing ==
  subm = Idle =>
     /\ \A r \in Range(responses) : AnswersOfResponse(r.id) # <<>>
     /\ \A a \in Range(answers) : \E r \in Range(responses) : r.id = a.response_id
     /\ (req.route = "submit" /\ res.status = 201) =>
           Len(AnswersOfResponse(res.response_id)) = Len(req.body.answers)


\* The routes that change a survey or its questions.
OwnerRoutes == {"update", "delete", "add_question"}

\* A step that handles an update, a deletion or an added question: it
\* succeeds only for the creator of the survey as the step begins; any other
\* user gets 403, or 404 when the survey does not exist, and surveys and
\* questions stay as they were.
OwnerOnlyWrites ==
  (req'.route \in OwnerRoutes /\ req'.token.kind = "valid"
     /\ (req'.route = "update" => SurveySchemaOk(req'.body))) =>
     LET found == {sv \in surveys : sv.id = req'.survey_id}
         owns == \E sv \in found : sv.creator_id = req'.token.id
     IN /\ res'.status \in {200, 201} => owns
        /\ (found # {} /\ ~owns) => res'.status = 403
        /\ found = {} => res'.status = 404
        /\ ~owns => UNCHANGED <<surveys, questions>>

\* C22: updating a survey, deleting a survey and adding a question succeed
\* only when the authenticated user's id equals the survey's creator_id; any
\* other user receives 403 (404 when the survey does not exist) and the
\* survey and its questions are left unchanged.
C22_OwnerOnlyWrites == [][OwnerOnlyWrites]_vars

\* User u2 has tried to add a question to u1's survey s1 and has been refused.
C22_Witness ==
  /\ req.route = "add_question" /\ req.token = TokenOf("u2") /\ req.survey_id = "s1"
  /\ res.status = 403
  /\ \A q \in questions : q.survey_id = "s1" => q.id \in {"q1", "q2", "q3", "q4"}


\* C23: the detail of a survey whose status is not 'published' is returned
\* only to its creator: an anonymous requester, one with an invalid token and
\* any other authenticated user receive 403 and no survey content; a
\* published survey is returned to everyone.
C23_UnpublishedDetailOwnerOnly ==
  req.route = "detail" =>
     LET found == {sv \in surveys : sv.id = req.survey_id}
         owns == /\ req.token.kind = "valid"
                 /\ \E sv \in found : sv.creator_id = req.token.id
         published == \E sv \in found : sv.status = "published"
     IN /\ (found # {} /\ ~published /\ ~owns) =>
              (res.status = 403 /\ "body" \notin DOMAIN res)
        /\ (res.status = 200 /\ ~published) => owns
        /\ (published /\ req.fail = "none") =>
              (res.status = 200 /\ res.body.survey.id = req.survey_id)
        /\ (found # {} /\ ~published /\ owns /\ req.fail = "none") => res.status = 200

\* User u1 has asked for the detail of u2's survey s2 after it was closed and
\* has been refused.
C23_Witness ==
  /\ req.route = "detail" /\ req.token = TokenOf("u1") /\ req.survey_id = "s2"
  /\ StatusOf("s2") = "closed"
  /\ res.status = 403


(***************************************************************************)
(* The protected routes reached through authenticateToken, with sample     *)
(* Authorization headers.                                                  *)
(***************************************************************************)
SampleJwts ==
  { Jwt("u1", JwtSecret, FALSE), Jwt("u2", JwtSecret, FALSE),
    Jwt("u1", JwtSecret, TRUE), Jwt("u1", "forged", FALSE) }

AuthHeaders ==
  { NoHeader, Header(<<>>), Header(<<Word("Bearer")>>),
    Header(<<Word("Bearer"), Word("")>>), Header(<<Word("Bearer"), Word("abc")>>),
    Header(<<Word("Bearer"), Word(""), Jwt("u1", JwtSecret, FALSE)>>),
    Header(<<Jwt("u1", JwtSecret, FALSE)>>),
    Header(<<Word("Basic"), Jwt("u1", JwtSecret, FALSE)>>) }
    \cup { Header(<<Word("Bearer"), jwt>>) : jwt \in SampleJwts }

ProtectedStats ==
  \E header \in AuthHeaders, id \in {"s1", "s2"} :
     GetStats(AuthenticateToken(header), id, "none")

ProtectedList ==
  \E header \in AuthHeaders : GetResponses(AuthenticateToken(header), "s1", "none")

ProtectedDelete ==
  \E header \in AuthHeaders : DeleteSurvey(AuthenticateToken(header), "s1")

NextAuth == SubmitPlain \/ ProtectedStats \/ ProtectedList \/ ProtectedDelete

SpecAuth == Init /\ [][NextAuth]_vars

\* The header's second part is a JWT signed with the secret that has not
\* expired.
CarriesGoodToken(header) ==
  /\ header.t = "str"
  /\ Len(header.parts) >= 2
  /\ header.parts[2].t = "jwt"
  /\ header.parts[2].key = JwtSecret
  /\ ~header.parts[2].expired

\* The header has no second part, or an empty one.
CarriesNoToken(header) ==
  \/ header.t = "undefined"
  \/ Len(header.parts) < 2
  \/ header.parts[2] = Word("")

\* A step that handles a request to a protected route.
MiddlewareGuards ==
  (req'.route \in {"stats", "list", "delete"}) =>
     LET header == req'.token.header
     IN /\ CarriesNoToken(header) =>
             (res'.status = 401 /\ res'.error = "token_missing" /\ UNCHANGED tables)
        /\ (~CarriesNoToken(header) /\ ~CarriesGoodToken(header)) =>
             (res'.status = 403 /\ res'.error = "token_invalid" /\ UNCHANGED tables)
        /\ CarriesGoodToken(header) =>
             /\ req'.token.kind = "valid"
             /\ req'.token.id = header.parts[2].payload.id
             /\ res' = IF req'.route = "stats"
                       THEN StatsResponse(TokenOf(req'.token.id), req'.survey_id, "none")
                       ELSE IF req'.route = "list"
                       THEN ListResponse(TokenOf(req'.token.id), req'.survey_id, "none")
                       ELSE IF req'.token.id = "u1" /\ SurveyRows("s1") # {}
                       THEN [route |-> "delete", status |-> 200]
                       ELSE res'

\* C24: authenticateToken lets a request reach the protected handler only
\* with a token that verifies against the JWT secret, attaching the decoded
\* payload as the request user; a request without a token is answered 401
\* and one with an invalid or expired token 403, and in neither case does the
\* protected handler run.
C24_AuthenticateToken == [][MiddlewareGuards]_vars

\* A deletion of s1 sent with an expired token of its creator has been
\* refused, s1 still holding a response.
C24_Witness ==
  /\ req.route = "delete"
  /\ req.token.header = Header(<<Word("Bearer"), Jwt("u1", JwtSecret, TRUE)>>)
  /\ res.status = 403
  /\ ResponseCount("s1") > 0


(***************************************************************************)
(* POST /api/auth/register, step by step: the lookup by email, then the    *)
(* insert.  Two clients register at the same time.                         *)
(***************************************************************************)
SampleEmails == {"e1", "e3", "e4"}

\* The ids gen_random_uuid() gives to new users.
NewUserIds == {"u3", "u4"}

RegisterFailures == {"none", "lookup", "insert"}

\* .from('users').select('id').eq('email', email).single(): data is the row,
\* or null when there is none or the query returns an error.
ExistingUser(email, fail) ==
  fail # "lookup" /\ \E u \in users : u.email = email

\* The users table without UNIQUE on email.
EmailUniqueUnchecked(email) == FALSE

\* email VARCHAR(255) UNIQUE: a row with this email is stored already.
EmailUnique(email) == \E u \in users : u.email = email

RegisterReply(c, email, fail, reply) ==
  /\ req' = [route |-> "register", client |-> c, email |-> email, fail |-> fail]
  /\ res' = reply
  /\ reg' = [reg EXCEPT ![c] = Idle]

\* The lookup and the 400 reply (lines 27-43).
RegisterBegin(c, email, fail) ==
  /\ reg[c] = Idle
  /\ IF ExistingUser(email, fail)
     THEN RegisterReply(c, email, fail, Reply("register", 400, "email_taken"))
     ELSE /\ reg' = [reg EXCEPT ![c] = [pc |-> "checked", email |-> email, fail |-> fail]]
          /\ UNCHANGED <<req, res>>
  /\ UNCHANGED <<tables, subm, stat, store>>

\* The insert and the reply (lines 45-75).
RegisterInsert(c) ==
  LET unused == {i \in NewUserIds : \A u \in users : u.id # i}
      userId == CHOOSE i \in unused : TRUE
      email == reg[c].email
  IN /\ reg[c].pc = "checked"
     /\ IF reg[c].fail = "insert" \/ EmailUnique(email)
        THEN /\ RegisterReply(c, email, reg[c].fail, Reply("register", 500, "register_failed"))
             /\ UNCHANGED users
        ELSE /\ unused # {}
             /\ users' = users \cup {[id |-> userId, email |-> email]}
             /\ RegisterReply(c, email, reg[c].fail,
                              [route |-> "register", status |-> 201, user_id |-> userId])
     /\ UNCHANGED <<surveys, questions, responses, answers, subm, stat, store>>

RegisterBegins ==
  \E c \in Clients, email \in SampleEmails, fail \in RegisterFailures :
     RegisterBegin(c, email, fail)

RegisterInserts == \E c \in Clients : RegisterInsert(c)

NextRegister == RegisterBegins \/ RegisterInserts

SpecRegister == Init /\ [][NextRegister]_vars

\* No two user rows share an email.
UniqueEmails == \A u, v \in users : u.email = v.email => u = v

\* The step replies to a registration: at the lookup, or after the insert.
RegisterReplies ==
  /\ req'.route = "register"
  /\ \/ reg' = reg /\ <<req', res'>> # <<req, res>>
     \/ reg[req'.client] # Idle /\ reg'[req'.client] = Idle

\* A step that replies to a registration whose email belongs to a user as the
\* step begins: no user is created, and when the step is the lookup and the
\* lookup works the reply is 400.
TakenEmailRejected ==
  (RegisterReplies /\ \E u \in users : u.email = req'.email) =>
     /\ users' = users
     /\ res'.status # 201
     /\ (reg[req'.client] = Idle /\ req'.fail # "lookup") => res'.status = 400

\* C25: registration with an email that already belongs to a user is
\* rejected with 400 and creates no user; after any sequence of
\* registrations, including two concurrent ones with the same email, no two
\* user rows share an email.
C25_UniqueEmails ==
  /\ []UniqueEmails
  /\ [][TakenEmailRejected]_vars

\* Both clients passed the lookup for e3; one has created the user and the
\* other's insert has been refused.
C25_Witness ==
  /\ req.route = "register" /\ req.email = "e3" /\ req.fail = "none"
  /\ res.status = 500
  /\ \E u \in users : u.email = "e3"


(***************************************************************************)
(* The client's auth store (useAuthStore).  A user is an object with its   *)
(* fields; updateUser takes a partial user, an object with some of them.   *)
(***************************************************************************)
StoreUser(id, username, role) ==
  [t |-> "obj", v |-> [id |-> id, username |-> username, role |-> role]]

SampleStoreUsers == { StoreUser("u1", "a", "user"), StoreUser("u2", "b", "admin") }

SampleTokens == { JStr(<<"t", "1">>), JStr(<<"t", "2">>), JStr(<<"t", "3">>) }

\* Partial<User>: any of the fields, or none.
SamplePartialUsers ==
  { EmptyObject, [username |-> "a"], [username |-> "b"], [username |-> "c"],
    [username |-> "d"], [username |-> "e"],
    [role |-> "user"], [role |-> "admin"], [username |-> "c", role |-> "admin"] }

\* { ...currentUser, ...userData }: the fields of userData over those of the
\* current user.
Spread(current, userData) ==
  [k \in DOMAIN current \cup DOMAIN userData |->
     IF k \in DOMAIN userData THEN userData[k] ELSE current[k]]

\* login: set({user, token, isAuthenticated: true, isLoading: false})
Login(user, token) ==
  /\ store' = [user |-> user, token |-> token,
               isAuthenticated |-> TRUE, isLoading |-> FALSE]
  /\ UNCHANGED <<tables, req, res, inflight>>

\* A logout that forgets the user and keeps the token.
LogoutKeepsToken ==
  /\ store' = [store EXCEPT !.user = JNull, !.isAuthenticated = FALSE,
                            !.isLoading = FALSE]
  /\ UNCHANGED <<tables, req, res, inflight>>

\* logout: set({user: null, token: null, isAuthenticated: false, isLoading: false})
Logout ==
  /\ store' = [user |-> JNull, token |-> JNull,
               isAuthenticated |-> FALSE, isLoading |-> FALSE]
  /\ UNCHANGED <<tables, req, res, inflight>>

\* setLoading: set({isLoading: loading})
SetLoading(loading) ==
  /\ store' = [store EXCEPT !.isLoading = loading]
  /\ UNCHANGED <<tables, req, res, inflight>>

\* updateUser: if (currentUser) set({user: {...currentUser, ...userData}})
UpdateUser(userData) ==
  /\ store' = IF Truthy(store.user)
              THEN [store EXCEPT !.user = [t |-> "obj", v |-> Spread(store.user.v, userData)]]
              ELSE store
  /\ UNCHANGED <<tables, req, res, inflight>>

Logins == \E user \in SampleStoreUsers, token \in SampleTokens : Login(user, token)

SetLoadings == \E loading \in BOOLEAN : SetLoading(loading)

UpdateUsers == \E userData \in SamplePartialUsers : UpdateUser(userData)

NextStore == Logins \/ Logout \/ SetLoadings \/ UpdateUsers

SpecStore == Init /\ [][NextStore]_vars

\* isAuthenticated is true exactly when token is non-null and exactly when
\* user is non-null.
StoreConsistent ==
  /\ store.isAuthenticated <=> store.token # JNull
  /\ store.isAuthenticated <=> store.user # JNull

\* A logout leaves user and token null and isAuthenticated false; an
\* updateUser while nobody is logged in leaves the store as it was.
StoreCalls ==
  /\ Logout => (store'.user = JNull /\ store'.token = JNull /\ ~store'.isAuthenticated)
  /\ \A userData \in SamplePartialUsers :
        (UpdateUser(userData) /\ store.user = JNull) => store' = store

\* C26: in the client auth store, after any sequence of login, logout,
\* setLoading and updateUser calls, isAuthenticated is true exactly when
\* token is non-null and exactly when user is non-null; logout clears user,
\* token and isAuthenticated together, and updateUser with no logged-in user
\* changes nothing.
C26_StoreConsistent ==
  /\ []StoreConsistent
  /\ [][StoreCalls]_vars

\* A user is logged in, the profile has been updated and a load is under way.
C26_Witness ==
  /\ store.isAuthenticated
  /\ store.user # JNull /\ store.user.v.username = "c"
  /\ store.isLoading


(***************************************************************************)
(* The fill form (SurveyFill): one answer entry per question of the survey *)
(* it loaded, validated and posted to the submit endpoint.                 *)
(***************************************************************************)
\* obj[key]: the property, or undefined when the object has none of that name.
Field(obj, key) == IF key \in DOMAIN obj THEN obj[key] ELSE JUndef

\* x || null
OrNull(x) == IF Truthy(x) THEN x ELSE JNull

\* !answer.answer_text?.trim(): the sample texts hold no white space.
NoText(answer) == ~Truthy(answer.answer_text)

\* !answer.selected_options?.length
NoSelection(answer) ==
  answer.selected_options.t # "arr" \/ answer.selected_options.v = <<>>

\* !answer.rating_value || answer.rating_value < 1
NoRating(answer) ==
  ~Truthy(answer.rating_value) \/ answer.rating_value.v.n < Scale

\* The test validateAnswers makes for one question: question.required and
\* question.type are read from the question as the server sent it.
EntryError(question, answer) ==
  /\ Truthy(Field(question, "required"))
  /\ LET type == Field(question, "type")
     IN \/ type \in {JStr(<<"text">>), JStr(<<"textarea">>)} /\ NoText(answer)
        \/ type \in {JStr(<<"radio">>), JStr(<<"select">>), JStr(<<"checkbox">>)}
             /\ NoSelection(answer)
        \/ type = JStr(<<"rating">>) /\ NoRating(answer)

\* validateAnswers: no question has an error.
ValidateAnswers(qs, entries) ==
  \A i \in 1..Len(qs) : ~EntryError(qs[i], entries[i])

\* One element of answersArray as the server's schema reads it: the keys
\* answer_text, selected_options and rating_value are sent, answer_options is
\* not, and the schema ignores the keys it does not name.
WireAnswer(answer) ==
  [question_id |-> answer.question_id,
   answer_text |-> OrNull(answer.answer_text),
   selected_options |-> OrNull(answer.selected_options),
   rating_value |-> OrNull(answer.rating_value),
   answer_options |-> JUndef]

\* The entries a respondent can have made for a question.
SampleEntries(q) ==
  { [question_id |-> q.id, answer_text |-> e[1], selected_options |-> e[2],
     rating_value |-> e[3]] :
    e \in CASE q.question_type = "text" ->
                 { <<JUndef, JUndef, JUndef>>, <<JStr(<<>>), JUndef, JUndef>>,
                   <<JStr(<<"x">>), JUndef, JUndef>>, <<JStr(<<"y">>), JUndef, JUndef>> }
            [] q.question_type = "rating" ->
                 { <<JUndef, JUndef, JUndef>>, <<JUndef, JUndef, JNum(Fin(0))>>,
                   <<JUndef, JUndef, JNum(Fin(4 * Scale))>>,
                   <<JUndef, JUndef, JNum(Fin(5 * Scale))>> }
            [] q.question_type = "single_choice" ->
                 { <<JUndef, JUndef, JUndef>>, <<JUndef, JArr(<<OptA>>), JUndef>> }
            [] OTHER ->
                 { <<JUndef, JUndef, JUndef>>, <<JUndef, JArr(<<OptA, OptB>>), JUndef>> } }

RECURSIVE EntryLists(_)
\* Object.values(answers): one entry for each question, in the order loaded.
EntryLists(qs) ==
  IF qs = <<>> THEN {<<>>}
  ELSE {<<entry>> \o rest : entry \in SampleEntries(Head(qs)), rest \in EntryLists(Tail(qs))}

\* handleSubmit for the survey as it is stored: nothing is sent unless
\* validateAnswers passes.
FormSubmit(surveyId) ==
  LET qs == OrderByIndex(QuestionsOf(surveyId))
  IN /\ qs # <<>>
     /\ Len(responses) < MaxResponses
     /\ \E entries \in EntryLists(qs) :
           /\ ValidateAnswers(qs, entries)
           /\ PostResponse([survey_id |-> surveyId,
                            answers |-> [i \in 1..Len(qs) |-> WireAnswer(entries[i])]],
                           "none")

FormSubmits == \E id \in {"s1", "s3"} : FormSubmit(id)

\* The creator of s3 adds a text question to it.
FormAddsQuestion == AddQuestion(TokenOf("u2"), "s3", NewQuestion(0))

NextForm == FormSubmits \/ FormAddsQuestion \/ StatsApi

SpecForm == InitApi /\ [][NextForm]_vars

\* The answer row stored for an entry of the last submission.
StoredRows(entry) ==
  {a \in Range(answers) :
     a.response_id = res.response_id /\ a.question_id = entry.question_id}

\* C27: a submission built by the fill form from answers that pass its own
\* validation is accepted by the submit endpoint and stored with the
\* respondent's data intact: selected options are stored in answer_options
\* and a chosen rating in answer_text as a decimal string the aggregator can
\* parse.
C27_FormSubmissionStored ==
  req.route = "submit" =>
     /\ res.status = 201
     /\ \A entry \in Range(req.body.answers) :
           /\ entry.selected_options.t = "arr" =>
                 \E a \in StoredRows(entry) : a.answer_options = entry.selected_options
           /\ entry.rating_value.t = "num" =>
                 \E a \in StoredRows(entry) :
                    /\ a.answer_text.t = "str"
                    /\ ParseFloat(a.answer_text.v) = entry.rating_value.v

\* A form submission has been stored: the one for s3 once it has a text
\* question, with the text filled in.
C27_FormAccepted == req.route = "submit" /\ res.status = 201


\* C28: for every question in every statistics result total_answers is at
\* most total_responses, for any sequence of accepted submissions (including
\* one that lists the same question_id more than once) and any interleaving
\* of a statistics request with submissions.
C28_AnswersAtMostResponses ==
  (req.route = "stats" /\ res.status = 200) =>
     \A st \in Range(res.body.question_stats) :
        st.total_answers <= res.body.total_responses


(***************************************************************************)
(* Submissions step by step while the owner changes the status of the      *)
(* survey or deletes it.                                                   *)
(***************************************************************************)
RaceUpdateInputs ==
  { <<TokenOf("u1"), "s1", [title |-> "T1", status |-> st]>> : st \in SurveyStatuses }

RaceUpdates == \E in \in RaceUpdateInputs : UpdateSurvey(in[1], in[2], in[3])

NextRace ==
  \/ SubmitBegins
  \/ SubmitValidate
  \/ SubmitInsertResponse
  \/ SubmitInsertAnswers
  \/ SubmitCompensate
  \/ RaceUpdates
  \/ Deletes

SpecRace == Init /\ [][NextRace]_vars

\* Every response row a step inserts belongs to a survey that is published
\* as the step begins.
InsertedWhilePublished ==
  \A r \in Range(responses') :
     r \notin Range(responses) => IsPublished(r.survey_id)

\* C29: every stored response belongs to a survey that was 'published' at
\* the moment the response row was inserted, even when the owner changes the
\* survey's status or deletes it while a submission has already passed the
\* status check.
C29_PublishedAtInsert == [][InsertedWhilePublished]_vars


(***************************************************************************)
(* Submissions to a survey with a required question, with and without      *)
(* content in the entry that answers it.  The owner of s2 publishes it; q5 *)
(* of s2 is a required rating question.                                    *)
(***************************************************************************)
RequiredEntries ==
  { [question_id |-> "q5", answer_text |-> text, answer_options |-> options] :
      text \in {JUndef, JStr(<<>>), JStr(<<"4">>), JStr(<<"5">>)},
      options \in {JUndef, JArr(<<>>), JArr(<<OptA>>)} }

SubmitRequired ==
  /\ Len(responses) < MaxResponses
  /\ \E entry \in RequiredEntries :
        PostResponse([survey_id |-> "s2", answers |-> <<entry>>], "none")

PublishRequired ==
  \E st \in SurveyStatuses :
     UpdateSurvey(TokenOf("u2"), "s2", [title |-> "T2", status |-> st])

NextRequired == SubmitRequired \/ PublishRequired \/ StatsApi

SpecRequired == Init /\ [][NextRequired]_vars

\* The entry holds a non-empty text or at least one selected option.
HasContent(entry) ==
  \/ entry.answer_text.t = "str" /\ entry.answer_text.v # <<>>
  \/ entry.answer_options.t = "arr" /\ entry.answer_options.v # <<>>

\* C30: every accepted submission carries actual content for each required
\* question: an entry for a required question that has neither answer_text
\* nor any answer_options does not satisfy the server's required check.
C30_RequiredHasContent ==
  (req.route = "submit" /\ res.status = 201) =>
     \A q \in questions :
        (q.survey_id = req.body.survey_id /\ q.is_required) =>
           \E entry \in Range(req.body.answers) :
              entry.question_id = q.id /\ HasContent(entry)


====
